---- MODULE Spec2Model ----
(***************************************************************************)
(* Art Hanging Calculator (src/app.js): the placement computation          *)
(* calculateNailPosition and the component state it closes over.           *)
(*                                                                         *)
(* Lengths are fixed-point integers counting thousandths of the active     *)
(* unit (152.4 is 152400), so that halves of two-decimal inputs are exact  *)
(* and Number.prototype.toFixed(2) is a real rounding step.  Binary        *)
(* floating-point representation error is not modelled; toFixed's choice   *)
(* at an exact decimal tie is taken as half-away-from-zero, and the        *)
(* properties below are stated so that they hold for either neighbour.     *)
(***************************************************************************)
EXTENDS Integers, Sequences, FiniteSets, TLC

VARIABLES
  units,           \* 'cm' | 'inches'                       (line 6)
  targetCentroid,  \* desired centroid height               (line 7)
  wallWidth,       \* wall width, 0 when unset              (line 8)
  configuration,   \* 'single' | 'vertical' | 'horizontal' | 'custom'  (line 9)
  artworks,        \* list of artwork records               (lines 10-21)
  layout,          \* rows, cols, horizontalGap, verticalGap (lines 23-28)
  results,         \* const results = calculateNailPosition() (line 407)
  rendered         \* whether the component body has run for this state

vars == <<units, targetCentroid, wallWidth, configuration, artworks, layout,
          results, rendered>>

-----------------------------------------------------------------------------
(* Numbers *)

\* A decimal literal with two places: D(152, 40) is 152.40.
D(whole, hundredths) == whole * 1000 + hundredths * 10

Abs(x) == IF x < 0 THEN -x ELSE x

\* x / 2.  Every value halved below is a sum of two-decimal inputs, i.e. an
\* even number of thousandths, so the quotient is exact.
Half(x) == x \div 2

\* x.toFixed(2): the nearest multiple of 0.01.
ToFixed2(x) ==
  LET r == ((Abs(x) + 5) \div 10) * 10
  IN  IF x < 0 THEN -r ELSE r

\* art.f || 0 : a missing (undefined) or zero field reads as 0.
Num(art, f) == IF f \in DOMAIN art /\ art[f] # 0 THEN art[f] ELSE 0

\* list.reduce((s, x) => s + x, 0)
RECURSIVE SumSeq(_)
SumSeq(s) == IF Len(s) = 0 THEN 0 ELSE s[1] + SumSeq(Tail(s))

\* Math.max(...list) for a non-empty list
MaxOf(S) == CHOOSE m \in S : \A x \in S : x <= m

\* {} : the object artworks[0] || {} falls back to
EmptyObject == [f \in {} |-> 0]

-----------------------------------------------------------------------------
(* Helpers of the component (closures over its state) *)

unitLabel == IF units = "cm" THEN "cm" ELSE "in"

\* groupStart with the division by two forgotten.
groupStart_NoHalf(totalW) == IF wallWidth # 0 THEN wallWidth - totalW ELSE 0

groupStart(totalW) == IF wallWidth # 0 THEN Half(wallWidth - totalW) ELSE 0

\* wireNailHeight with the hanger offset forgotten.
wireNailHeight_NoHanger(art) ==
  targetCentroid + Half(Num(art, "height")) - Num(art, "wireOffset")

wireNailHeight(art) ==
  targetCentroid + Half(Num(art, "height")) - Num(art, "wireOffset")
    + Num(art, "hangerOffset")

dringNailHeight(art) ==
  targetCentroid + Half(Num(art, "height")) - Num(art, "mountingVerticalOffset")

\* art.mountingType === 'dring'
IsDRing(art) == "mountingType" \in DOMAIN art /\ art.mountingType = "dring"

\* A derivation string: the numbers it shows, in order of appearance, each
\* already formatted with toFixed(2), followed by the unit label.
Equation(shown) == [shown |-> shown, unit |-> unitLabel]

-----------------------------------------------------------------------------
(* calculateNailPosition, SINGLE (lines 107-158) *)

calcSingle ==
  LET art == IF Len(artworks) > 0 THEN artworks[1] ELSE EmptyObject
      horizontalCenter == Half(wallWidth)
  IN  IF IsDRing(art)
      THEN
        LET nailHeight == dringNailHeight(art)
            totalWidth == Num(art, "width")
            startX == groupStart(totalWidth)
            mho == Num(art, "mountingHorizontalOffset")
            leftX == startX + mho
            rightX == startX + totalWidth - mho
        IN  << [ artwork |-> 1,
                 isDRing |-> TRUE,
                 nailHeight |-> ToFixed2(nailHeight),
                 centroid |-> ToFixed2(targetCentroid),
                 horizontalDistance |-> ToFixed2(leftX),
                 horizontalDistance2 |-> ToFixed2(rightX),
                 horizontalFromEdge |-> "left",
                 equation |-> Equation(
                   << ToFixed2(targetCentroid), ToFixed2(Num(art, "height")),
                      ToFixed2(Num(art, "mountingVerticalOffset")),
                      ToFixed2(nailHeight) >>),
                 horizontalEquation |-> Equation(
                   << ToFixed2(wallWidth), ToFixed2(totalWidth), ToFixed2(mho),
                      ToFixed2(leftX),
                      ToFixed2(wallWidth), ToFixed2(totalWidth),
                      ToFixed2(totalWidth), ToFixed2(mho), ToFixed2(rightX) >>)
               ] >>
      ELSE
        LET nailHeight == wireNailHeight(art)
        IN  << [ artwork |-> 1,
                 nailHeight |-> ToFixed2(nailHeight),
                 centroid |-> ToFixed2(targetCentroid),
                 horizontalDistance |-> ToFixed2(horizontalCenter),
                 horizontalFromEdge |-> "center",
                 equation |-> Equation(
                   << ToFixed2(targetCentroid), ToFixed2(Num(art, "height")),
                      ToFixed2(Num(art, "wireOffset")),
                      ToFixed2(Num(art, "hangerOffset")),
                      ToFixed2(nailHeight) >>),
                 horizontalEquation |-> Equation(
                   << ToFixed2(wallWidth), ToFixed2(horizontalCenter) >>)
               ] >>

-----------------------------------------------------------------------------
(* calculateNailPosition, CUSTOM GRID (lines 161-272) *)

\* artworks.filter((_, i) => i % cols === c && i < rows * cols), 0-based i
colArts(c) ==
  { i \in 0..(Len(artworks) - 1) :
      i % layout.cols = c /\ i < layout.rows * layout.cols }

\* colWidths with the first artwork of the column standing for the column.
colWidths_First ==
  [ k \in 1..layout.cols |->
      IF colArts(k - 1) # {}
      THEN Num(artworks[k], "width")
      ELSE 0 ]

\* colWidths (lines 166-171): max width per column, 0 for an empty column
colWidths ==
  [ k \in 1..layout.cols |->
      IF colArts(k - 1) # {}
      THEN MaxOf({ Num(artworks[i + 1], "width") : i \in colArts(k - 1) })
      ELSE 0 ]

\* totalWidth (lines 173-174).  The gaps of layout are always numbers, so
\* (horizontalGap || 0) and (verticalGap || 0) are the gaps themselves.
gridTotalWidth ==
  SumSeq(colWidths)
    + (IF layout.cols > 1 THEN (layout.cols - 1) * layout.horizontalGap ELSE 0)

gridStartX == groupStart(gridTotalWidth)

\* Array.prototype.slice resolves an index: a negative one counts from the
\* end, and both ends are clamped to the list.
SliceIndex(k, len) ==
  IF k < 0 THEN (IF len + k < 0 THEN 0 ELSE len + k)
  ELSE IF k > len THEN len ELSE k

\* artworks.slice(rowStart, rowStart + cols) as 0-based indices (line 181)
rowSlice(r) ==
  { i \in 0..(Len(artworks) - 1) :
      /\ SliceIndex(r * layout.cols, Len(artworks)) <= i
      /\ i < SliceIndex(r * layout.cols + layout.cols, Len(artworks)) }

\* rowHeights with the first artwork of the row standing for the row.
rowHeights_First ==
  [ k \in 1..layout.rows |->
      IF rowSlice(k - 1) # {}
      THEN Num(artworks[(k - 1) * layout.cols + 1], "height")
      ELSE 0 ]

\* rowHeights (lines 178-184): max height per row, 0 for an empty row
rowHeights ==
  [ k \in 1..layout.rows |->
      IF rowSlice(k - 1) # {}
      THEN MaxOf({ Num(artworks[i + 1], "height") : i \in rowSlice(k - 1) })
      ELSE 0 ]

\* totalHeight (lines 185-186)
gridTotalHeight ==
  SumSeq(rowHeights)
    + (IF layout.rows > 1 THEN (layout.rows - 1) * layout.verticalGap ELSE 0)

gridCentroid == Half(gridTotalHeight)

gridOffset == targetCentroid - gridCentroid

\* heightAbove (lines 193-194)
heightAbove(row) ==
  SumSeq(SubSeq(rowHeights, 1, row)) + row * layout.verticalGap

\* widthToLeft (lines 208-209)
widthToLeft(col) ==
  SumSeq(SubSeq(colWidths, 1, col)) + col * layout.horizontalGap

\* The body of the inner loop (lines 198-266) for 0-based row, col, artIndex.
gridResult(row, col, artIndex) ==
  LET art == artworks[artIndex + 1]
      artCentroid == heightAbove(row) + Half(Num(art, "height"))
      actualCentroid == artCentroid + gridOffset
      artLeftX == gridStartX + widthToLeft(col)
      artCenterX == artLeftX + Half(Num(art, "width"))
      mho == Num(art, "mountingHorizontalOffset")
  IN  IF IsDRing(art)
      THEN
        LET leftX == artLeftX + mho
            rightX == artLeftX + Num(art, "width") - mho
        IN  [ artwork |-> artIndex + 1,
              position |-> <<row + 1, col + 1>>,
              centroid |-> ToFixed2(actualCentroid),
              isDRing |-> TRUE,
              nailHeight |-> ToFixed2(dringNailHeight(art) + gridOffset),
              horizontalDistance |-> ToFixed2(leftX),
              horizontalDistance2 |-> ToFixed2(rightX),
              horizontalFromEdge |-> "left",
              equation |-> Equation(
                << ToFixed2(gridCentroid), ToFixed2(targetCentroid),
                   ToFixed2(gridCentroid), ToFixed2(gridOffset),
                   ToFixed2(dringNailHeight(art) + gridOffset) >>),
              horizontalEquation |-> Equation(
                << ToFixed2(wallWidth), ToFixed2(gridTotalWidth),
                   ToFixed2(gridStartX),
                   ToFixed2(gridStartX), ToFixed2(widthToLeft(col)),
                   ToFixed2(mho), ToFixed2(leftX),
                   ToFixed2(gridStartX), ToFixed2(widthToLeft(col)),
                   ToFixed2(Num(art, "width")), ToFixed2(mho),
                   ToFixed2(rightX) >>) ]
      ELSE
        [ artwork |-> artIndex + 1,
          position |-> <<row + 1, col + 1>>,
          centroid |-> ToFixed2(actualCentroid),
          nailHeight |->
            ToFixed2(wireNailHeight(art) + gridOffset
                       - Half(Num(art, "height")) + Half(Num(art, "height"))),
          horizontalDistance |-> ToFixed2(artCenterX),
          horizontalFromEdge |-> "left",
          equation |-> Equation(
            << ToFixed2(gridCentroid), ToFixed2(targetCentroid),
               ToFixed2(gridCentroid), ToFixed2(gridOffset),
               ToFixed2(targetCentroid), ToFixed2(Half(Num(art, "height"))),
               ToFixed2(Num(art, "wireOffset")),
               ToFixed2(Num(art, "hangerOffset")),
               ToFixed2(wireNailHeight(art)) >>),
          horizontalEquation |-> Equation(
            << ToFixed2(wallWidth), ToFixed2(gridTotalWidth),
               ToFixed2(gridStartX),
               ToFixed2(gridStartX), ToFixed2(widthToLeft(col)),
               ToFixed2(Half(Num(art, "width"))), ToFixed2(artCenterX) >>) ]

\* gridLoop with the outer loop running while row <= rows.
RECURSIVE gridLoop_ExtraRow(_, _, _, _)
gridLoop_ExtraRow(row, col, artIndex, acc) ==
  IF row > layout.rows THEN acc
  ELSE IF col >= layout.cols \/ artIndex >= Len(artworks)
       THEN gridLoop_ExtraRow(row + 1, 0, artIndex, acc)
       ELSE gridLoop_ExtraRow(row, col + 1, artIndex + 1,
                              Append(acc, gridResult(row, col, artIndex)))

\* The nested loops (lines 191-270): row and col advance as the for
\* statements do; the break at line 197 leaves the inner loop only.
RECURSIVE gridLoop(_, _, _, _)
gridLoop(row, col, artIndex, acc) ==
  IF row >= layout.rows THEN acc
  ELSE IF col >= layout.cols \/ artIndex >= Len(artworks)
       THEN gridLoop(row + 1, 0, artIndex, acc)
       ELSE gridLoop(row, col + 1, artIndex + 1,
                     Append(acc, gridResult(row, col, artIndex)))

calcCustom == gridLoop(0, 0, 0, <<>>)

-----------------------------------------------------------------------------
(* calculateNailPosition, VERTICAL STACK (lines 275-343) *)

\* totalHeight (lines 276-279): reduce over (art, i), gap added for i > 0
RECURSIVE verticalTotalHeight(_)
verticalTotalHeight(n) ==
  IF n = 0 THEN 0
  ELSE verticalTotalHeight(n - 1) + Num(artworks[n], "height")
         + (IF n - 1 > 0 THEN layout.verticalGap ELSE 0)

\* groupCentroid taken as the full height of the stack.
groupCentroid_Full == verticalTotalHeight(Len(artworks))

groupCentroid == Half(verticalTotalHeight(Len(artworks)))

verticalOffset == targetCentroid - groupCentroid

\* verticalCumulative with the gap never added.
RECURSIVE verticalCumulative_NoGap(_)
verticalCumulative_NoGap(i) ==
  IF i = 0 THEN 0
  ELSE verticalCumulative_NoGap(i - 1) + Num(artworks[i], "height")

\* verticalCumulative with the gap condition of the totalHeight reduce
\* (i > 0) in place of its own (i < length - 1).
RECURSIVE verticalCumulative_GapAfterFirst(_)
verticalCumulative_GapAfterFirst(i) ==
  IF i = 0 THEN 0
  ELSE verticalCumulative_GapAfterFirst(i - 1) + Num(artworks[i], "height")
         + (IF i - 1 > 0 THEN layout.verticalGap ELSE 0)

\* The value of `cumulative` when the map callback starts on 0-based index i
\* (lines 284, 288): each earlier callback added its height, and the gap
\* unless it was the last artwork.
RECURSIVE verticalCumulative(_)
verticalCumulative(i) ==
  IF i = 0 THEN 0
  ELSE verticalCumulative(i - 1) + Num(artworks[i], "height")
         + (IF i - 1 < Len(artworks) - 1 THEN layout.verticalGap ELSE 0)

\* The map callback (lines 285-342) for 0-based index i.
verticalResult(i) ==
  LET art == artworks[i + 1]
      artCentroid ==
        verticalCumulative(i) + Half(Num(art, "height")) + verticalOffset
      horizontalCenter == Half(wallWidth)
      mho == Num(art, "mountingHorizontalOffset")
  IN  IF IsDRing(art)
      THEN
        LET artLeftX == groupStart(Num(art, "width"))
            leftX == artLeftX + mho
            rightX == artLeftX + Num(art, "width") - mho
        IN  [ artwork |-> i + 1,
              isDRing |-> TRUE,
              nailHeight |-> ToFixed2(dringNailHeight(art)),
              centroid |-> ToFixed2(artCentroid),
              horizontalDistance |-> ToFixed2(leftX),
              horizontalDistance2 |-> ToFixed2(rightX),
              horizontalFromEdge |-> "left",
              equation |-> Equation(
                << ToFixed2(groupCentroid), ToFixed2(targetCentroid),
                   ToFixed2(groupCentroid), ToFixed2(verticalOffset),
                   ToFixed2(targetCentroid), ToFixed2(Half(Num(art, "height"))),
                   ToFixed2(Num(art, "mountingVerticalOffset")),
                   ToFixed2(dringNailHeight(art)) >>),
              horizontalEquation |-> Equation(
                << ToFixed2(wallWidth), ToFixed2(Num(art, "width")),
                   ToFixed2(mho), ToFixed2(leftX),
                   ToFixed2(wallWidth), ToFixed2(Num(art, "width")),
                   ToFixed2(Num(art, "width")), ToFixed2(mho),
                   ToFixed2(rightX) >>) ]
      ELSE
        LET nailHeight == wireNailHeight(art)
        IN  [ artwork |-> i + 1,
              nailHeight |-> ToFixed2(nailHeight),
              centroid |-> ToFixed2(artCentroid),
              horizontalDistance |-> ToFixed2(horizontalCenter),
              horizontalFromEdge |-> "center",
              equation |-> Equation(
                << ToFixed2(groupCentroid), ToFixed2(targetCentroid),
                   ToFixed2(groupCentroid), ToFixed2(verticalOffset),
                   ToFixed2(targetCentroid), ToFixed2(Half(Num(art, "height"))),
                   ToFixed2(Num(art, "wireOffset")),
                   ToFixed2(Num(art, "hangerOffset")),
                   ToFixed2(nailHeight) >>),
              horizontalEquation |-> Equation(
                << ToFixed2(wallWidth), ToFixed2(horizontalCenter) >>) ]

calcVertical == [ k \in 1..Len(artworks) |-> verticalResult(k - 1) ]

-----------------------------------------------------------------------------
(* calculateNailPosition, HORIZONTAL STACK (lines 345-404) *)

\* horizontalTotalWidth with the gaps left out.
RECURSIVE horizontalTotalWidth_NoGap(_)
horizontalTotalWidth_NoGap(n) ==
  IF n = 0 THEN 0
  ELSE horizontalTotalWidth_NoGap(n - 1) + Num(artworks[n], "width")

\* totalWidth (lines 346-349): reduce over (art, i), gap added for i > 0
RECURSIVE horizontalTotalWidth(_)
horizontalTotalWidth(n) ==
  IF n = 0 THEN 0
  ELSE horizontalTotalWidth(n - 1) + Num(artworks[n], "width")
         + (IF n - 1 > 0 THEN layout.horizontalGap ELSE 0)

horizontalStartX == groupStart(horizontalTotalWidth(Len(artworks)))

\* The value of `cumulative` when the map callback starts on 0-based index i
\* (lines 352, 357).
RECURSIVE horizontalCumulative(_)
horizontalCumulative(i) ==
  IF i = 0 THEN 0
  ELSE horizontalCumulative(i - 1) + Num(artworks[i], "width")
         + (IF i - 1 < Len(artworks) - 1 THEN layout.horizontalGap ELSE 0)

\* The map callback (lines 353-404) for 0-based index i.
horizontalResult(i) ==
  LET art == artworks[i + 1]
      totalWidth == horizontalTotalWidth(Len(artworks))
      startX == horizontalStartX
      prevCumulative == horizontalCumulative(i)
      artLeftX == startX + prevCumulative
      artCenterX == artLeftX + Half(Num(art, "width"))
      mho == Num(art, "mountingHorizontalOffset")
  IN  IF IsDRing(art)
      THEN
        LET leftX == artLeftX + mho
            rightX == artLeftX + Num(art, "width") - mho
            nailHeight == dringNailHeight(art)
        IN  [ artwork |-> i + 1,
              isDRing |-> TRUE,
              nailHeight |-> ToFixed2(nailHeight),
              centroid |-> ToFixed2(targetCentroid),
              horizontalDistance |-> ToFixed2(leftX),
              horizontalDistance2 |-> ToFixed2(rightX),
              horizontalFromEdge |-> "left",
              equation |-> Equation(
                << ToFixed2(targetCentroid), ToFixed2(Half(Num(art, "height"))),
                   ToFixed2(Num(art, "mountingVerticalOffset")),
                   ToFixed2(nailHeight) >>),
              horizontalEquation |-> Equation(
                << ToFixed2(wallWidth), ToFixed2(totalWidth), ToFixed2(startX),
                   ToFixed2(startX), ToFixed2(prevCumulative), ToFixed2(mho),
                   ToFixed2(leftX),
                   ToFixed2(startX), ToFixed2(prevCumulative),
                   ToFixed2(Num(art, "width")), ToFixed2(mho),
                   ToFixed2(rightX) >>) ]
      ELSE
        LET nailHeight == wireNailHeight(art)
        IN  [ artwork |-> i + 1,
              nailHeight |-> ToFixed2(nailHeight),
              centroid |-> ToFixed2(targetCentroid),
              horizontalDistance |-> ToFixed2(artCenterX),
              horizontalFromEdge |-> "left",
              equation |-> Equation(
                << ToFixed2(targetCentroid), ToFixed2(Num(art, "height")),
                   ToFixed2(Num(art, "wireOffset")),
                   ToFixed2(Num(art, "hangerOffset")),
                   ToFixed2(nailHeight) >>),
              horizontalEquation |-> Equation(
                << ToFixed2(wallWidth), ToFixed2(totalWidth), ToFixed2(startX),
                   ToFixed2(startX), ToFixed2(prevCumulative),
                   ToFixed2(Half(Num(art, "width"))), ToFixed2(artCenterX) >>) ]

calcHorizontal == [ k \in 1..Len(artworks) |-> horizontalResult(k - 1) ]

-----------------------------------------------------------------------------
(* calculateNailPosition (lines 105-405): dispatch on configuration *)

calculateNailPosition ==
  IF configuration = "single" THEN calcSingle
  ELSE IF configuration = "custom" THEN calcCustom
  ELSE IF configuration = "vertical" THEN calcVertical
  ELSE calcHorizontal

-----------------------------------------------------------------------------
(* Inputs of the placement computation *)

MaxArtworks == 3
MaxRows == 2
MaxCols == 2

\* The artwork addArtwork creates, also the initial one (lines 11-20, 62-71).
NewArtwork(id) ==
  [ id |-> id, width |-> 0, height |-> 0, mountingType |-> "wire",
    wireOffset |-> 0, mountingVerticalOffset |-> 0,
    mountingHorizontalOffset |-> 0, hangerOffset |-> D(2, 54) ]

\* An artwork as the form leaves it after its fields were edited
\* (updateArtwork replaces one field at a time, lines 81-97).
Artwork(type, w, h, wo, ho, mvo, mho) ==
  [ id |-> 0, width |-> w, height |-> h, mountingType |-> type,
    wireOffset |-> wo, mountingVerticalOffset |-> mvo,
    mountingHorizontalOffset |-> mho, hangerOffset |-> ho ]

\* Representative artworks: the untouched new artwork (all lengths zero), a
\* wire and a D-ring artwork with one-decimal sizes, and a wire and a D-ring
\* artwork whose sizes have an odd number of hundredths, so that their halves
\* fall between two displayed values.  Fields of the other mounting type keep
\* the values typed earlier.
Catalogue ==
  { NewArtwork(0),
    Artwork("wire",  D(50, 0),  D(70, 0),  D(10, 0), D(2, 54), D(6, 0), D(4, 0)),
    Artwork("dring", D(30, 0),  D(30, 0),  D(10, 0), D(2, 54), D(5, 0), D(3, 0)),
    Artwork("wire",  D(40, 3),  D(50, 1),  D(8, 50), 0,        D(6, 0), D(4, 0)),
    Artwork("dring", D(25, 1),  D(40, 1),  D(7, 0),  D(2, 54), D(2, 50), D(1, 25)) }

\* Lists of n catalogue artworks; ids are the list positions.
ArtLists(n) ==
  { [ k \in 1..n |-> [ c[k] EXCEPT !.id = k ] ] : c \in [ 1..n -> Catalogue ] }

ArtListsUpTo(n) == UNION { ArtLists(k) : k \in 0..n }

\* 152.4 is the initial value (line 7).
TargetCentroids == { 0, D(100, 0), D(152, 40) }

WallWidths == { 0, D(200, 0) }

\* layout as useState creates it (lines 23-28)
DefaultLayout ==
  [ rows |-> 1, cols |-> 1, horizontalGap |-> D(10, 0), verticalGap |-> D(10, 0) ]

\* Single: the list holds one artwork (none once the last one was removed).
\* The wall width field accepts any number, a negative one included
\* (lines 454-456).
InputsSingle ==
  /\ configuration = "single"
  /\ targetCentroid \in TargetCentroids
  /\ wallWidth \in WallWidths \cup { -D(50, 0) }
  /\ artworks \in ArtListsUpTo(1)
  /\ layout = DefaultLayout

\* Vertical Stack reads verticalGap only.
InputsVertical ==
  /\ configuration = "vertical"
  /\ targetCentroid \in { D(100, 0), D(152, 40) }
  /\ wallWidth \in WallWidths
  /\ artworks \in ArtListsUpTo(MaxArtworks)
  /\ layout \in { [ DefaultLayout EXCEPT !.verticalGap = g ] : g \in { 0, D(10, 0) } }

\* Horizontal Stack reads horizontalGap only.
InputsHorizontal ==
  /\ configuration = "horizontal"
  /\ targetCentroid \in { D(100, 0), D(152, 40) }
  /\ wallWidth \in WallWidths
  /\ artworks \in ArtListsUpTo(MaxArtworks)
  /\ layout \in { [ DefaultLayout EXCEPT !.horizontalGap = g ] : g \in { 0, D(10, 0) } }

InputsCustom ==
  /\ configuration = "custom"
  /\ targetCentroid = D(152, 40)
  /\ wallWidth \in WallWidths
  /\ artworks \in ArtListsUpTo(MaxArtworks)
  /\ layout \in
       { [ rows |-> r, cols |-> c, horizontalGap |-> g[1], verticalGap |-> g[2] ] :
           r \in 1..MaxRows, c \in 1..MaxCols,
           g \in { <<D(10, 0), D(10, 0)>>, <<0, D(5, 0)>> } }

\* The worked examples of the documentation.
ScenarioSingle ==
  /\ configuration = "single"
  /\ targetCentroid = D(152, 40)
  /\ wallWidth = D(200, 0)
  /\ artworks = << [ Artwork("wire", D(50, 0), D(70, 0), D(10, 0), D(2, 54), 0, 0)
                       EXCEPT !.id = 1 ] >>
  /\ layout = DefaultLayout

ScenarioVertical ==
  /\ configuration = "vertical"
  /\ targetCentroid = D(150, 0)
  /\ wallWidth = 0
  /\ artworks = << [ Artwork("wire", 0, D(50, 0), 0, D(2, 54), 0, 0) EXCEPT !.id = 1 ],
                   [ Artwork("wire", 0, D(30, 0), 0, D(2, 54), 0, 0) EXCEPT !.id = 2 ] >>
  /\ layout = DefaultLayout

ScenarioCustom ==
  /\ configuration = "custom"
  /\ targetCentroid = D(100, 0)
  /\ wallWidth = 0
  /\ artworks = << [ Artwork("wire", 0, D(40, 0), 0, D(2, 54), 0, 0) EXCEPT !.id = 1 ],
                   [ Artwork("wire", 0, D(60, 0), 0, D(2, 54), 0, 0) EXCEPT !.id = 2 ] >>
  /\ layout = [ rows |-> 2, cols |-> 1, horizontalGap |-> D(10, 0),
                verticalGap |-> D(5, 0) ]

InitCalc ==
  /\ units = "cm"
  /\ results = <<>>
  /\ rendered = FALSE
  /\ \/ InputsSingle
     \/ InputsVertical
     \/ InputsHorizontal
     \/ InputsCustom
     \/ ScenarioSingle
     \/ ScenarioVertical
     \/ ScenarioCustom

\* The component body runs for the current state (line 407).
Render ==
  /\ ~rendered
  /\ results' = calculateNailPosition
  /\ rendered' = TRUE
  /\ UNCHANGED <<units, targetCentroid, wallWidth, configuration, artworks, layout>>

NextCalc == Render

SpecCalc == InitCalc /\ [][NextCalc]_vars

-----------------------------------------------------------------------------
(* The form: texts and their parsing *)

\* A text typed into an input or chosen in a select (e.target.value) is the
\* sequence of its characters.
Digits == << "0", "1", "2", "3", "4", "5", "6", "7", "8", "9" >>

IsDigit(c) == \E d \in 1..Len(Digits) : Digits[d] = c

DigitValue(c) == (CHOOSE d \in 1..Len(Digits) : Digits[d] = c) - 1

\* Number of digits the text starts with.
RECURSIVE DigitRun(_)
DigitRun(s) ==
  IF s = <<>> \/ ~IsDigit(Head(s)) THEN 0 ELSE 1 + DigitRun(Tail(s))

\* The natural number a sequence of digits denotes.
RECURSIVE DigitsValue(_)
DigitsValue(s) ==
  IF s = <<>> THEN 0
  ELSE 10 * DigitsValue(SubSeq(s, 1, Len(s) - 1)) + DigitValue(s[Len(s)])

Sign(s) == IF s # <<>> /\ Head(s) = "-" THEN -1 ELSE 1

Unsigned(s) == IF s # <<>> /\ Head(s) \in { "-", "+" } THEN Tail(s) ELSE s

\* A parsed number is <<n>>, NaN is <<>>.
NaN == <<>>

\* parseInt(text) (lines 505, 517): an optional sign and the digits that
\* follow it; whatever comes after the digits is ignored; NaN without a digit.
parseInt(s) ==
  LET u == Unsigned(s)
      n == DigitRun(u)
  IN  IF n = 0 THEN NaN ELSE << Sign(s) * DigitsValue(SubSeq(u, 1, n)) >>

\* parseFloat(text) (lines 91, 439, 455, 534, 552, 573) in thousandths: an
\* optional sign, digits, and an optional point with digits (the texts of the
\* model have at most three of them); NaN without a digit.
parseFloat(s) ==
  LET u == Unsigned(s)
      n == DigitRun(u)
      rest == SubSeq(u, n + 1, Len(u))
      frac == IF rest # <<>> /\ Head(rest) = "." THEN Tail(rest) ELSE <<>>
      m == DigitRun(frac)
      kept == IF m > 3 THEN 3 ELSE m
      scale == CASE kept = 0 -> 0 [] kept = 1 -> 100 [] kept = 2 -> 10 [] kept = 3 -> 1
  IN  IF n + m = 0 THEN NaN
      ELSE << Sign(s) * (1000 * DigitsValue(SubSeq(u, 1, n))
                           + scale * DigitsValue(SubSeq(frac, 1, kept))) >>

\* parsed || d: NaN and 0 are falsy.
OrElse(parsed, d) == IF parsed = NaN \/ parsed[1] = 0 THEN d ELSE parsed[1]

\* value === '' ? 0 : parseFloat(value) || 0  (lines 89-91, 439, 455, ...)
lengthOf(value) == IF value = <<>> THEN 0 ELSE OrElse(parseFloat(value), 0)

\* The two options of the mounting type select (lines 648-649).
MountingOptions == { << "w", "i", "r", "e" >>, << "d", "r", "i", "n", "g" >> }

\* Text typed into a length input of an artwork.
LengthTexts == { << "3", "0" >> }

\* Texts typed into the Rows and Columns inputs.
CountTexts == { <<>>, << "0" >>, << "2" >>, << "-", "2" >> }

\* Texts typed into the gap, target centroid and wall width inputs.
SettingTexts == { <<>>, << "7", ".", "5" >> }

\* Date.now() (line 63) has millisecond resolution: two calls can return the
\* same value.  Two representative values; the initial artwork has id 1.
Timestamps == { 1001, 1002 }

\* The inputs of an artwork the model types into; every input of the card
\* calls updateArtwork the same way (lines 623-717).
EditedFields == { "width", "mountingType" }

TextsFor(field) == IF field = "mountingType" THEN MountingOptions ELSE LengthTexts

-----------------------------------------------------------------------------
(* The handlers (lines 32-97, 438-580) *)

\* const newUnits, factor (lines 33-34); the factor 2.54 or 1/2.54 is the
\* ratio <<numerator, denominator>>.
newUnits == IF units = "inches" THEN "cm" ELSE "inches"

factor == IF newUnits = "cm" THEN << 254, 100 >> ELSE << 100, 254 >>

\* +(x * f).toFixed(1) with the nearest tenth cut off instead of rounded.
converted_Truncated(x, f) ==
  LET q == (Abs(x) * f[1]) \div (100 * f[2])
  IN  IF x < 0 THEN -(100 * q) ELSE 100 * q

\* +(x * f).toFixed(1): the product rounded to the nearest tenth.  A product
\* exactly halfway between two tenths is rounded away from zero here; the
\* double JS computes for it can lie on either side of the half.
converted(x, f) ==
  LET q == (2 * Abs(x) * f[1] + 100 * f[2]) \div (200 * f[2])
  IN  IF x < 0 THEN -(100 * q) ELSE 100 * q

\* x === 0 ? 0 : +(x * factor).toFixed(1)   (lines 38, 42-49)
convertedUnlessZero(x, f) == IF x = 0 THEN 0 ELSE converted(x, f)

\* The artwork toggleUnits maps art to (lines 40-50).
convertedArtwork(art, f) ==
  [ art EXCEPT
      !.width = convertedUnlessZero(art.width, f),
      !.height = convertedUnlessZero(art.height, f),
      !.wireOffset = convertedUnlessZero(art.wireOffset, f),
      !.mountingVerticalOffset = convertedUnlessZero(art.mountingVerticalOffset, f),
      !.mountingHorizontalOffset = convertedUnlessZero(art.mountingHorizontalOffset, f),
      !.hangerOffset = convertedUnlessZero(art.hangerOffset, f) ]

\* The list addArtwork sets when Date.now() returns now (lines 59-73).
addArtwork(now) == Append(artworks, NewArtwork(now))

\* The list removeArtwork leaves (lines 75-79).
removeArtwork(id) ==
  IF Len(artworks) > 1
  THEN SelectSeq(artworks, LAMBDA art : art.id # id)
  ELSE artworks

\* mountingType holds strings in this model.  A number stored in it is
\* written as String(number): it differs from 'wire' and from 'dring', as
\* the number does under === (lines 111, 204, 219, 290, 359, 655).
stored(field, number) == IF field = "mountingType" THEN ToString(number) ELSE number

\* updateArtwork with the field written in every artwork of the list.
updateArtwork_Every(id, field, value) ==
  [ k \in 1..Len(artworks) |->
      [ artworks[k] EXCEPT ![field] = stored(field, lengthOf(value)) ] ]

\* The list updateArtwork sets (lines 81-97).  value is e.target.value, a
\* string, so the typeof test of line 88 holds.
updateArtwork(id, field, value) ==
  [ k \in 1..Len(artworks) |->
      IF artworks[k].id = id
      THEN [ artworks[k] EXCEPT ![field] = stored(field, lengthOf(value)) ]
      ELSE artworks[k] ]

\* A handler runs on the rendered form; the state it sets is rendered by the
\* next run of the component body (Render), until then the page shows the
\* results of the state before.
Handled ==
  /\ rendered
  /\ rendered' = FALSE
  /\ UNCHANGED results

\* The state useState creates, before the first render (lines 6-28).
InitForm ==
  /\ units = "cm"
  /\ targetCentroid = D(152, 40)
  /\ wallWidth = 0
  /\ configuration = "single"
  /\ artworks = << NewArtwork(1) >>
  /\ layout = DefaultLayout
  /\ results = <<>>
  /\ rendered = FALSE

\* The cm/inches button (lines 32-57).
ToggleUnits ==
  /\ units' = newUnits
  /\ targetCentroid' = converted(targetCentroid, factor)
  /\ wallWidth' = convertedUnlessZero(wallWidth, factor)
  /\ artworks' = [ k \in 1..Len(artworks) |-> convertedArtwork(artworks[k], factor) ]
  /\ layout' = [ layout EXCEPT
                   !.horizontalGap = converted(layout.horizontalGap, factor),
                   !.verticalGap = converted(layout.verticalGap, factor) ]
  /\ UNCHANGED configuration
  /\ Handled

\* A configuration button (lines 470-480).
ConfigurationClick(type) ==
  /\ configuration' = type
  /\ IF type = "single" /\ Len(artworks) > 1
     THEN artworks' = << artworks[1] >>
     ELSE IF type # "single" /\ Len(artworks) = 1
          THEN \E now \in Timestamps : artworks' = addArtwork(now)
          ELSE UNCHANGED artworks
  /\ UNCHANGED <<units, targetCentroid, wallWidth, layout>>
  /\ Handled

\* The Add Artwork button, rendered outside Single (lines 588-596).  The
\* model stops adding at MaxArtworks artworks.
AddArtwork ==
  /\ configuration # "single"
  /\ Len(artworks) < MaxArtworks
  /\ \E now \in Timestamps : artworks' = addArtwork(now)
  /\ UNCHANGED <<units, targetCentroid, wallWidth, configuration, layout>>
  /\ Handled

\* The remove button of the artwork with this id, rendered outside Single
\* while the list holds more than one artwork (lines 604-611).
RemoveArtwork(id) ==
  /\ configuration # "single"
  /\ Len(artworks) > 1
  /\ \E k \in 1..Len(artworks) : artworks[k].id = id
  /\ artworks' = removeArtwork(id)
  /\ UNCHANGED <<units, targetCentroid, wallWidth, configuration, layout>>
  /\ Handled

\* An input or the select of the artwork with this id (lines 623-717).
UpdateArtwork(id, field, value) ==
  /\ \E k \in 1..Len(artworks) : artworks[k].id = id
  /\ artworks' = updateArtwork(id, field, value)
  /\ UNCHANGED <<units, targetCentroid, wallWidth, configuration, layout>>
  /\ Handled

\* Target Centroid Height input (lines 438-440).
SetTargetCentroid(value) ==
  /\ targetCentroid' = lengthOf(value)
  /\ UNCHANGED <<units, wallWidth, configuration, artworks, layout>>
  /\ Handled

\* Wall Width input (lines 454-456).
SetWallWidth(value) ==
  /\ wallWidth' = lengthOf(value)
  /\ UNCHANGED <<units, targetCentroid, configuration, artworks, layout>>
  /\ Handled

\* Rows input, rendered in Custom Grid (lines 494, 500-507).
SetRows(value) ==
  /\ configuration = "custom"
  /\ layout' = [ layout EXCEPT !.rows = OrElse(parseInt(value), 1) ]
  /\ UNCHANGED <<units, targetCentroid, wallWidth, configuration, artworks>>
  /\ Handled

\* Columns input, rendered in Custom Grid (lines 494, 512-519).
SetCols(value) ==
  /\ configuration = "custom"
  /\ layout' = [ layout EXCEPT !.cols = OrElse(parseInt(value), 1) ]
  /\ UNCHANGED <<units, targetCentroid, wallWidth, configuration, artworks>>
  /\ Handled

\* H-Gap and V-Gap inputs of Custom Grid (lines 526-556) and the gap input
\* of the stacks, which writes the gap of the current stack (lines 560-580).
SetGap(field, value) ==
  /\ \/ configuration = "custom"
     \/ configuration = "vertical" /\ field = "verticalGap"
     \/ configuration = "horizontal" /\ field = "horizontalGap"
  /\ layout' = [ layout EXCEPT ![field] = lengthOf(value) ]
  /\ UNCHANGED <<units, targetCentroid, wallWidth, configuration, artworks>>
  /\ Handled

Configurations == { "single", "vertical", "horizontal", "custom" }

ArtworkIds == { artworks[k].id : k \in 1..Len(artworks) }

\* The artwork list, the mounting type select of its cards and the units
\* button.  The length inputs of the cards are operated in SpecUpdate.
NextArtworks ==
  \/ Render
  \/ ToggleUnits
  \/ \E type \in Configurations : ConfigurationClick(type)
  \/ AddArtwork
  \/ \E id \in ArtworkIds : RemoveArtwork(id)
  \/ \E id \in ArtworkIds :
       \E value \in MountingOptions : UpdateArtwork(id, "mountingType", value)

SpecArtworks == InitForm /\ [][NextArtworks]_vars

\* The settings above the artwork list.
NextSettings ==
  \/ Render
  \/ \E type \in Configurations : ConfigurationClick(type)
  \/ \E value \in SettingTexts : SetTargetCentroid(value)
  \/ \E value \in SettingTexts : SetWallWidth(value)
  \/ \E value \in CountTexts : SetRows(value)
  \/ \E value \in CountTexts : SetCols(value)
  \/ \E field \in { "horizontalGap", "verticalGap" } :
       \E value \in SettingTexts : SetGap(field, value)

SpecSettings == InitForm /\ [][NextSettings]_vars

\* The cards as earlier edits left them: a wire and a D-ring artwork of the
\* catalogue.
EditedCatalogue ==
  { Artwork("wire",  D(50, 0),  D(70, 0),  D(10, 0), D(2, 54), D(6, 0), D(4, 0)),
    Artwork("dring", D(30, 0),  D(30, 0),  D(10, 0), D(2, 54), D(5, 0), D(3, 0)) }

\* A list of cards.  The ids are the list positions, or the last
\* two artworks share an id (two calls of Date.now() in one millisecond).
InitUpdate ==
  /\ units = "cm"
  /\ targetCentroid = D(152, 40)
  /\ wallWidth = 0
  /\ configuration = "vertical"
  /\ \E n \in 1..MaxArtworks, shared \in BOOLEAN :
       \E c \in [ 1..n -> EditedCatalogue ] :
         artworks =
           [ k \in 1..n |->
               [ c[k] EXCEPT !.id = IF shared /\ n > 1 /\ k = n THEN n - 1 ELSE k ] ]
  /\ layout = DefaultLayout
  /\ results = <<>>
  /\ rendered = FALSE

NextUpdate ==
  \/ Render
  \/ \E id \in ArtworkIds, field \in EditedFields :
       \E value \in TextsFor(field) : UpdateArtwork(id, field, value)

SpecUpdate == InitUpdate /\ [][NextUpdate]_vars

\* Largest length, in tenths, the unit conversion is run on.
MaxTenths == 300

\* Every length of the form holds the same one-decimal value, in cm; the
\* hanger offset keeps its default of 2.54.
InitUnits ==
  /\ units = "cm"
  /\ configuration = "single"
  /\ \E x \in 0..MaxTenths :
       /\ targetCentroid = 100 * x
       /\ wallWidth = 100 * x
       /\ artworks = << [ NewArtwork(1) EXCEPT
                            !.width = 100 * x, !.height = 100 * x,
                            !.wireOffset = 100 * x,
                            !.mountingVerticalOffset = 100 * x,
                            !.mountingHorizontalOffset = 100 * x ] >>
       /\ layout = [ DefaultLayout EXCEPT !.horizontalGap = 100 * x,
                                          !.verticalGap = 100 * x ]
  /\ results = <<>>
  /\ rendered = FALSE

NextUnits == Render \/ ToggleUnits

SpecUnits == InitUnits /\ [][NextUnits]_vars

-----------------------------------------------------------------------------
(* Vocabulary of the properties *)

\* `reported` is a two-decimal display of the exact value twiceExact / 2:
\* a multiple of 0.01 at most 0.005 away from it.
Shows2(reported, twiceExact) ==
  /\ reported % 10 = 0
  /\ Abs(2 * reported - twiceExact) <= 10

Shows(reported, exact) == Shows2(reported, 2 * exact)

\* Sum of field f over the first n artworks of the list.
RECURSIVE FieldSum(_, _)
FieldSum(f, n) == IF n = 0 THEN 0 ELSE FieldSum(f, n - 1) + artworks[n][f]

Positions == 1..Len(artworks)

AllHeightsPositive == \A k \in Positions : artworks[k].height > 0

NonNegativeInputs ==
  /\ targetCentroid >= 0
  /\ \A k \in Positions :
       /\ artworks[k].height >= 0
       /\ artworks[k].wireOffset >= 0
       /\ artworks[k].hangerOffset >= 0

-----------------------------------------------------------------------------
(* C1 *)

\* C1: in Single configuration with a wire-mounted artwork and non-negative
\* height, wireOffset, hangerOffset and targetCentroid, the one result reports
\* nailHeight = targetCentroid + height/2 - wireOffset + hangerOffset,
\* centroid = targetCentroid and horizontal distance wallWidth/2 from the
\* wall centre (each as its two-decimal display); the documented example
\* gives 179.94 and 100.00.
C1_SingleWire ==
  ( /\ rendered
    /\ configuration = "single"
    /\ Len(artworks) = 1
    /\ ~IsDRing(artworks[1])
    /\ NonNegativeInputs )
  =>
  LET art == artworks[1]
  IN  /\ Len(results) = 1
      /\ Shows2(results[1].nailHeight,
                2 * targetCentroid + art.height - 2 * art.wireOffset
                  + 2 * art.hangerOffset)
      /\ Shows(results[1].centroid, targetCentroid)
      /\ Shows2(results[1].horizontalDistance, wallWidth)
      /\ results[1].horizontalFromEdge = "center"
      /\ ScenarioSingle =>
           /\ results[1].nailHeight = D(179, 94)
           /\ results[1].horizontalDistance = D(100, 0)

C1_Witness ==
  /\ rendered
  /\ ScenarioSingle
  /\ results[1].nailHeight = D(179, 94)
  /\ results[1].horizontalDistance = D(100, 0)
  /\ results[1].horizontalFromEdge = "center"

-----------------------------------------------------------------------------
(* C2 *)

SingleDRing ==
  /\ rendered
  /\ configuration = "single"
  /\ Len(artworks) = 1
  /\ IsDRing(artworks[1])

\* C2 as stated: in Single configuration with a D-ring artwork, for all
\* inputs, wallWidth = 0 included, the two reported nail positions add up to
\* 2*((wallWidth - width)/2) + width = wallWidth (to the rounding of the two
\* displayed values).
C2_SumIsWallWidth ==
  SingleDRing =>
    Abs(results[1].horizontalDistance + results[1].horizontalDistance2
          - wallWidth) <= 10

\* C2 amended: the two reported nail positions add up to wallWidth when
\* wallWidth is not 0; when wallWidth is 0 the artwork's left edge is taken
\* to be 0 and they add up to the artwork's width (to the rounding of the
\* two displayed values).
C2_SumAmended ==
  SingleDRing =>
    /\ Len(results) = 1
    /\ results[1].horizontalFromEdge = "left"
    /\ Abs(results[1].horizontalDistance + results[1].horizontalDistance2
             - (IF wallWidth # 0 THEN wallWidth ELSE artworks[1].width)) <= 10

C2_Witness ==
  /\ SingleDRing
  /\ wallWidth = 0
  /\ artworks[1].width > 0
  /\ results[1].horizontalDistance = artworks[1].mountingHorizontalOffset
  /\ results[1].horizontalDistance + results[1].horizontalDistance2
       = artworks[1].width

-----------------------------------------------------------------------------
(* C3 *)

\* The numbers of two result lists agree: nail height, centroid and the
\* horizontal distance(s) of every entry.
SameNumbers(a, b) ==
  /\ Len(a) = Len(b)
  /\ \A k \in 1..Len(a) :
       /\ a[k].nailHeight = b[k].nailHeight
       /\ a[k].centroid = b[k].centroid
       /\ a[k].horizontalDistance = b[k].horizontalDistance
       /\ ("horizontalDistance2" \in DOMAIN a[k])
            = ("horizontalDistance2" \in DOMAIN b[k])
       /\ "horizontalDistance2" \in DOMAIN a[k] =>
            a[k].horizontalDistance2 = b[k].horizontalDistance2

\* C3: for a single artwork, the Custom Grid strategy with rows = cols = 1
\* yields the same nail height, centroid and horizontal distance(s) as the
\* Single strategy does for the same artwork, targetCentroid and wallWidth.
C3_GridOneByOneIsSingle ==
  ( /\ rendered
    /\ configuration = "custom"
    /\ layout.rows = 1
    /\ layout.cols = 1
    /\ Len(artworks) = 1 )
  => SameNumbers(results, calcSingle)

-----------------------------------------------------------------------------
(* C4 *)

VerticalStack ==
  /\ rendered
  /\ configuration = "vertical"
  /\ Len(artworks) >= 1

\* A two-decimal value counted in hundredths.
Hundredths(x) == x \div 10

\* Sum over the first n results of height_i * (centroid_i - targetCentroid),
\* heights and displayed centroids counted in hundredths.
RECURSIVE WeightedDeviationSum(_)
WeightedDeviationSum(n) ==
  IF n = 0 THEN 0
  ELSE WeightedDeviationSum(n - 1)
         + Hundredths(artworks[n].height)
             * Hundredths(results[n].centroid - targetCentroid)

\* The height-weighted average of the reported centroids is targetCentroid,
\* to the 0.005 by which each displayed centroid may be off:
\* | sum h_i * (c_i - target) | <= 0.005 * sum h_i.
WeightedAverageIsTarget ==
  LET n == Len(artworks)
  IN  2 * Abs(WeightedDeviationSum(n)) <= Hundredths(FieldSum("height", n))

\* C4 as stated: in Vertical Stack with n >= 1 artworks of positive height
\* and verticalGap >= 0, the height-weighted average of the reported
\* centroids equals targetCentroid.
C4_WeightedAverage ==
  (VerticalStack /\ AllHeightsPositive /\ layout.verticalGap >= 0)
    => WeightedAverageIsTarget

\* C4 amended: the height-weighted average of the reported centroids equals
\* targetCentroid when verticalGap = 0 or n = 1; for every verticalGap >= 0
\* it is the midpoint of the stack's extent, halfway between the first
\* artwork's edge centroid_1 - height_1/2 and the last artwork's edge
\* centroid_n + height_n/2, that equals targetCentroid.
C4_Amended ==
  (VerticalStack /\ AllHeightsPositive /\ layout.verticalGap >= 0)
    =>
    LET n == Len(artworks)
    IN  /\ Len(results) = n
        /\ (layout.verticalGap = 0 \/ n = 1) => WeightedAverageIsTarget
        /\ Abs(2 * results[1].centroid - artworks[1].height
                 + 2 * results[n].centroid + artworks[n].height
                 - 4 * targetCentroid) <= 20

C4_Witness ==
  /\ VerticalStack
  /\ Len(artworks) = 3
  /\ AllHeightsPositive
  /\ artworks[1].height # artworks[2].height
  /\ layout.verticalGap = 0
  /\ WeightedAverageIsTarget
  /\ results[1].centroid < targetCentroid
  /\ results[3].centroid > targetCentroid

-----------------------------------------------------------------------------
(* C5 *)

\* Result k's nail height is the mount formula applied to the centroid the
\* same result reports (to the rounding of the two displayed values).
NailFromOwnCentroid(k) ==
  LET art == artworks[results[k].artwork]
      r == results[k]
  IN  IF IsDRing(art)
      THEN Abs(2 * r.nailHeight
                 - (2 * r.centroid + art.height
                      - 2 * art.mountingVerticalOffset)) <= 20
      ELSE Abs(2 * r.nailHeight
                 - (2 * r.centroid + art.height - 2 * art.wireOffset
                      + 2 * art.hangerOffset)) <= 20

\* C5: in Vertical Stack and in Custom Grid every result's nail height is
\* derived from the centroid reported in the same result:
\* centroid + height/2 - wireOffset + hangerOffset for a wire artwork,
\* centroid + height/2 - mountingVerticalOffset for a D-ring artwork.
C5_NailFromOwnCentroid ==
  (rendered /\ configuration \in {"vertical", "custom"})
    => \A k \in 1..Len(results) : NailFromOwnCentroid(k)

-----------------------------------------------------------------------------
(* C6 *)

\* Twice the centroid C6 states for the artwork at 0-based list position i.
StatedVerticalCentroid2(i) ==
  LET n == Len(artworks)
      totalHeight == FieldSum("height", n) + (n - 1) * layout.verticalGap
  IN  2 * (FieldSum("height", i) + i * layout.verticalGap)
        + artworks[i + 1].height
        + 2 * targetCentroid - totalHeight

\* C6: in Vertical Stack with n >= 1 artworks the reported centroid of the
\* artwork at 0-based position i is
\*   (sum of the heights before i) + i*verticalGap + height_i/2
\*     + (targetCentroid - totalHeight/2),
\* totalHeight = sum of heights + (n-1)*verticalGap; heights 50 and 30 with
\* verticalGap 10 and targetCentroid 150 give 130 and 180.
C6_VerticalCentroid ==
  VerticalStack =>
    /\ Len(results) = Len(artworks)
    /\ \A k \in Positions :
         /\ results[k].artwork = k
         /\ Shows2(results[k].centroid, StatedVerticalCentroid2(k - 1))
    /\ ScenarioVertical =>
         /\ results[1].centroid = D(130, 0)
         /\ results[2].centroid = D(180, 0)

C6_Witness ==
  /\ VerticalStack
  /\ ScenarioVertical
  /\ results[1].centroid = D(130, 0)
  /\ results[2].centroid = D(180, 0)

-----------------------------------------------------------------------------
(* C7 *)

VerticalStackOfTwo ==
  /\ rendered
  /\ configuration = "vertical"
  /\ Len(artworks) >= 2
  /\ AllHeightsPositive

\* C7 as stated: in Vertical Stack with at least two artworks of positive
\* height, artwork i hangs above artwork i+1 (its reported centroid is the
\* greater one) and verticalGap lies between the lower edge of artwork i and
\* the upper edge of artwork i+1.
C7_TopToBottom ==
  VerticalStackOfTwo =>
    \A k \in 1..(Len(artworks) - 1) :
      /\ results[k].centroid > results[k + 1].centroid
      /\ Abs((2 * results[k].centroid - artworks[k].height)
               - (2 * results[k + 1].centroid + artworks[k + 1].height)
               - 2 * layout.verticalGap) <= 20

\* C7 amended: with verticalGap >= 0 the artworks are placed bottom-to-top
\* in list order: artwork i+1 hangs above artwork i (its reported centroid
\* is the greater one) and verticalGap lies between the upper edge of
\* artwork i and the lower edge of artwork i+1 (to the rounding of the two
\* displayed centroids).
C7_BottomToTop ==
  (VerticalStackOfTwo /\ layout.verticalGap >= 0) =>
    \A k \in 1..(Len(artworks) - 1) :
      /\ results[k + 1].centroid > results[k].centroid
      /\ Abs((2 * results[k + 1].centroid - artworks[k + 1].height)
               - (2 * results[k].centroid + artworks[k].height)
               - 2 * layout.verticalGap) <= 20

C7_Witness ==
  /\ VerticalStackOfTwo
  /\ Len(artworks) = 3
  /\ layout.verticalGap > 0
  /\ results[1].centroid < results[2].centroid
  /\ results[2].centroid < results[3].centroid
  /\ (2 * results[2].centroid - artworks[2].height)
       - (2 * results[1].centroid + artworks[1].height)
       = 2 * layout.verticalGap

-----------------------------------------------------------------------------
(* C8 *)

CustomGrid ==
  /\ rendered
  /\ configuration = "custom"
  /\ layout.rows >= 1
  /\ layout.cols >= 1

\* Heights of the artworks that fill 0-based row r (row-major fill).
HeightsInRow(r) ==
  { artworks[k].height : k \in { j \in Positions : (j - 1) \div layout.cols = r } }

\* The row height C8 states: the maximum artwork height in the row (0 for a
\* row no artwork falls into).
StatedRowHeight(r) == IF HeightsInRow(r) = {} THEN 0 ELSE MaxOf(HeightsInRow(r))

RECURSIVE StatedRowHeightSum(_)
StatedRowHeightSum(r) ==
  IF r = 0 THEN 0 ELSE StatedRowHeightSum(r - 1) + StatedRowHeight(r - 1)

\* Twice the centroid C8 states for list position k (1-based).
StatedGridCentroid2(k) ==
  LET r == (k - 1) \div layout.cols
      totalHeight == StatedRowHeightSum(layout.rows)
                       + (layout.rows - 1) * layout.verticalGap
  IN  2 * (StatedRowHeightSum(r) + r * layout.verticalGap)
        + artworks[k].height
        + 2 * targetCentroid - totalHeight

\* C8: in Custom Grid the reported centroid of the artwork in 0-based row r
\* is (sum of the row heights above r) + r*verticalGap + height/2
\*      + (targetCentroid - totalHeight/2),
\* a row height being the maximum artwork height in the row and
\* totalHeight = sum of row heights + (rows-1)*verticalGap; rows=2, cols=1,
\* heights 40 and 60, verticalGap 5, targetCentroid 100 give 67.5 and 122.5.
C8_GridCentroid ==
  CustomGrid =>
    /\ \A k \in 1..Len(results) :
         Shows2(results[k].centroid, StatedGridCentroid2(results[k].artwork))
    /\ ScenarioCustom =>
         /\ Len(results) = 2
         /\ results[1].centroid = D(67, 50)
         /\ results[2].centroid = D(122, 50)

C8_Witness ==
  /\ CustomGrid
  /\ ScenarioCustom
  /\ results[1].centroid = D(67, 50)
  /\ results[2].centroid = D(122, 50)

-----------------------------------------------------------------------------
(* C9 *)

\* Twice the left edge C9 states for the artwork at 0-based list position i.
StatedLeftEdge2(i) ==
  LET n == Len(artworks)
      totalWidth == FieldSum("width", n) + (n - 1) * layout.horizontalGap
  IN  (wallWidth - totalWidth)
        + 2 * (FieldSum("width", i) + i * layout.horizontalGap)

\* C9: in Horizontal Stack with n >= 1 artworks and wallWidth > 0 the left
\* edge of the artwork at 0-based position i is
\*   (wallWidth - totalWidth)/2 + (sum of the widths before i) + i*horizontalGap,
\* totalWidth = sum of widths + (n-1)*horizontalGap; a wire result reports
\* left edge + width/2, a D-ring result reports left edge +
\* mountingHorizontalOffset and left edge + width - mountingHorizontalOffset,
\* and every result's centroid is targetCentroid.
C9_HorizontalStack ==
  ( /\ rendered
    /\ configuration = "horizontal"
    /\ Len(artworks) >= 1
    /\ wallWidth > 0 )
  =>
    /\ Len(results) = Len(artworks)
    /\ \A k \in Positions :
         LET art == artworks[k]
             r == results[k]
         IN  /\ r.artwork = k
             /\ Shows(r.centroid, targetCentroid)
             /\ r.horizontalFromEdge = "left"
             /\ IF IsDRing(art)
                THEN /\ Shows2(r.horizontalDistance,
                               StatedLeftEdge2(k - 1)
                                 + 2 * art.mountingHorizontalOffset)
                     /\ Shows2(r.horizontalDistance2,
                               StatedLeftEdge2(k - 1) + 2 * art.width
                                 - 2 * art.mountingHorizontalOffset)
                ELSE /\ Shows2(r.horizontalDistance,
                               StatedLeftEdge2(k - 1) + art.width)
                     /\ "horizontalDistance2" \notin DOMAIN r

C9_Witness ==
  /\ rendered
  /\ configuration = "horizontal"
  /\ wallWidth > 0
  /\ layout.horizontalGap > 0
  /\ Len(artworks) = 3
  /\ ~IsDRing(artworks[1])
  /\ IsDRing(artworks[3])
  /\ \A k \in Positions : artworks[k].width > 0
  /\ results[1].horizontalDistance < results[2].horizontalDistance
  /\ results[2].horizontalDistance < results[3].horizontalDistance
  /\ results[3].horizontalDistance < results[3].horizontalDistance2

-----------------------------------------------------------------------------
(* C10 *)

Min(a, b) == IF a <= b THEN a ELSE b

\* C10: in Custom Grid with rows >= 1 and cols >= 1 the result list has
\* exactly min(artworks.length, rows*cols) entries, the k-th entry (0-based)
\* is for artwork k+1 and is labelled row floor(k/cols)+1, column
\* (k mod cols)+1.
C10_GridRowMajor ==
  CustomGrid =>
    /\ Len(results) = Min(Len(artworks), layout.rows * layout.cols)
    /\ \A k \in 1..Len(results) :
         /\ results[k].artwork = k
         /\ results[k].position
              = << ((k - 1) \div layout.cols) + 1, ((k - 1) % layout.cols) + 1 >>

C10_Witness ==
  /\ CustomGrid
  /\ layout.rows = 2
  /\ layout.cols = 1
  /\ Len(artworks) = 3
  /\ Len(results) = 2
  /\ results[2].artwork = 2
  /\ results[2].position = <<2, 1>>

-----------------------------------------------------------------------------
(* C11 *)

\* Widths of the placed artworks that fall into 0-based column c.
WidthsInColumn(c) ==
  { artworks[k].width :
      k \in { j \in 1..Min(Len(artworks), layout.rows * layout.cols) :
                (j - 1) % layout.cols = c } }

\* The column width C11 states: the maximum artwork width in the column.
StatedColWidth(c) ==
  IF WidthsInColumn(c) = {} THEN 0 ELSE MaxOf(WidthsInColumn(c))

RECURSIVE StatedColWidthSum(_)
StatedColWidthSum(c) ==
  IF c = 0 THEN 0 ELSE StatedColWidthSum(c - 1) + StatedColWidth(c - 1)

\* Twice the left edge C11 states for list position k (1-based).
StatedGridLeftEdge2(k) ==
  LET c == (k - 1) % layout.cols
      totalWidth == StatedColWidthSum(layout.cols)
                      + (layout.cols - 1) * layout.horizontalGap
  IN  (wallWidth - totalWidth)
        + 2 * (StatedColWidthSum(c) + c * layout.horizontalGap)

\* C11: in Custom Grid with wallWidth > 0 the artwork in 0-based column c has
\* its left edge at
\*   (wallWidth - totalWidth)/2 + (sum of the widths of the columns left of c)
\*      + c*horizontalGap,
\* a column width being the maximum artwork width in the column and
\* totalWidth = sum of column widths + (cols-1)*horizontalGap.  The artwork is
\* left-aligned in its cell: a wire result reports left edge + width/2, a
\* D-ring result left edge + mountingHorizontalOffset and left edge + width -
\* mountingHorizontalOffset, whatever the width of the column.
C11_GridLeftEdge ==
  (CustomGrid /\ wallWidth > 0) =>
    \A k \in 1..Len(results) :
      LET r == results[k]
          art == artworks[r.artwork]
          left2 == StatedGridLeftEdge2(r.artwork)
      IN  /\ r.horizontalFromEdge = "left"
          /\ IF IsDRing(art)
             THEN /\ Shows2(r.horizontalDistance,
                            left2 + 2 * art.mountingHorizontalOffset)
                  /\ Shows2(r.horizontalDistance2,
                            left2 + 2 * art.width
                              - 2 * art.mountingHorizontalOffset)
             ELSE Shows2(r.horizontalDistance, left2 + art.width)

\* Artwork 3 shares column 0 with the wider artwork 1: both start at the same
\* left edge, so the centre of artwork 3 lies left of the centre of artwork 1.
C11_Witness ==
  /\ CustomGrid
  /\ wallWidth > 0
  /\ layout.rows = 2
  /\ layout.cols = 2
  /\ layout.horizontalGap > 0
  /\ Len(results) = 3
  /\ ~IsDRing(artworks[1])
  /\ ~IsDRing(artworks[3])
  /\ 0 < artworks[3].width
  /\ artworks[3].width < artworks[1].width
  /\ results[3].horizontalDistance < results[1].horizontalDistance
  /\ results[1].horizontalDistance < results[2].horizontalDistance

-----------------------------------------------------------------------------
(* C12 *)

\* C12: after any sequence of operations of the form, the mounting type
\* select included, every artwork's mountingType is 'wire' or 'dring'.
C12_MountingTypes ==
  \A k \in Positions : artworks[k].mountingType \in { "wire", "dring" }

-----------------------------------------------------------------------------
(* C13 *)

\* C13: with zero artworks the placement computation returns an empty result
\* list in every configuration (single, vertical, horizontal, custom).
C13_NoArtworksNoResults ==
  (rendered /\ Len(artworks) = 0) => Len(results) = 0

-----------------------------------------------------------------------------
(* C14 *)

\* C14: after any sequence of edits of the Rows and Columns inputs (any
\* integer text, zero, negative and empty included) layout.rows >= 1 and
\* layout.cols >= 1.
C14_RowsColsAtLeastOne == layout.rows >= 1 /\ layout.cols >= 1

-----------------------------------------------------------------------------
(* C15 *)

\* The last number the vertical derivation string of a result shows.
FinalShown(r) == r.equation.shown[Len(r.equation.shown)]

\* C15: for every result of every configuration the final value shown in the
\* vertical derivation string equals the result's nailHeight.
C15_EquationEndsInNailHeight ==
  rendered => \A k \in 1..Len(results) : FinalShown(results[k]) = results[k].nailHeight

-----------------------------------------------------------------------------
(* C16 *)

\* The length fields of the form, for a list of one artwork.
Lengths ==
  << targetCentroid, wallWidth, layout.horizontalGap, layout.verticalGap,
     artworks[1].width, artworks[1].height, artworks[1].wireOffset,
     artworks[1].mountingVerticalOffset, artworks[1].mountingHorizontalOffset,
     artworks[1].hangerOffset >>

\* y is x times f[1]/f[2] rounded to one decimal: a multiple of 0.1 at most
\* 0.05 away from the product.
IsRoundedProduct(y, x, f) ==
  /\ y % 100 = 0
  /\ Abs(f[2] * y - f[1] * x) <= 50 * f[2]

CmToInches == << 100, 254 >>

InchesToCm == << 254, 100 >>

\* The positive lengths with one decimal place.
OneDecimalLengths == { 100 * x : x \in 1..(MaxTenths + 2) }

\* C16: every toggle of the units replaces a length by the length times the
\* factor (2.54 or 1/2.54) rounded to one decimal, and a length that is
\* exactly 0 stays 0, in both directions; so for a positive one-decimal
\* length x in cm, whose conversion to inches the field holds, the toggle
\* back to cm yields a value within 0.1 of x, whichever way a product that
\* lies halfway between two tenths is rounded.
C16_UnitsRoundTrip ==
  [][ ToggleUnits =>
        \A i \in DOMAIN Lengths :
          /\ Lengths[i] = 0 => Lengths'[i] = 0
          /\ IsRoundedProduct(Lengths'[i], Lengths[i], factor)
          /\ units = "inches" =>
               \A x \in OneDecimalLengths :
                 IsRoundedProduct(Lengths[i], x, CmToInches) =>
                   \A back \in { Lengths'[i] - 100, Lengths'[i], Lengths'[i] + 100 } :
                     IsRoundedProduct(back, Lengths[i], InchesToCm) =>
                       Abs(back - x) <= 100
    ]_vars

\* Back in cm after cm -> inches -> cm: the default hanger offset 2.54 has
\* become 2.5, which only the two toggles produce, the wall width holds 9.9
\* (it was 9.9 or 10.0).
C16_Witness ==
  /\ units = "cm"
  /\ artworks[1].hangerOffset = D(2, 50)
  /\ wallWidth = D(9, 90)
  /\ targetCentroid = D(9, 90)

-----------------------------------------------------------------------------
(* C17 *)

\* C17: after any sequence of operations of the form (configuration buttons,
\* Add Artwork, remove, updateArtwork, units button), whenever configuration is 'single'
\* the artworks list holds exactly one artwork.
C17_SingleHoldsOne == configuration = "single" => Len(artworks) = 1

-----------------------------------------------------------------------------
(* C18 *)

ArtworkFields == DOMAIN NewArtwork(0)

\* C18: updateArtwork(id, field, value) keeps the length and the order of the
\* list, leaves every artwork whose id differs from id as it was, and in an
\* artwork whose id is id changes no field other than the named one; so a
\* change of the mounting type leaves width, height, wireOffset, hangerOffset,
\* mountingVerticalOffset and mountingHorizontalOffset as they were.
C18_UpdateOnlyNamedField ==
  [][ \A id \in ArtworkIds, field \in EditedFields :
        \A value \in TextsFor(field) :
          UpdateArtwork(id, field, value) =>
            /\ Len(artworks') = Len(artworks)
            /\ \A k \in Positions :
                 /\ artworks'[k].id = artworks[k].id
                 /\ IF artworks[k].id = id
                    THEN \A f \in ArtworkFields \ { field } :
                           artworks'[k][f] = artworks[k][f]
                    ELSE artworks'[k] = artworks[k]
    ]_vars

\* The mounting type of the D-ring artwork 2 was switched: its sizes and
\* offsets are as before, and the wire artwork 1, with another id, is as it
\* was.
C18_Witness ==
  /\ Len(artworks) = 2
  /\ artworks[1].id # artworks[2].id
  /\ artworks[1] \in { [ a EXCEPT !.id = 1 ] : a \in EditedCatalogue }
  /\ artworks[2].mountingType \notin { "wire", "dring" }
  /\ artworks[2].width = D(30, 0)
  /\ artworks[2].height = D(30, 0)
  /\ artworks[2].wireOffset = D(10, 0)
  /\ artworks[2].hangerOffset = D(2, 54)
  /\ artworks[2].mountingVerticalOffset = D(5, 0)
  /\ artworks[2].mountingHorizontalOffset = D(3, 0)

-----------------------------------------------------------------------------
(* C19 *)

\* C19: after any sequence of operations of the form, starting from the
\* initial state, the artworks list is never empty.
C19_NeverEmpty == Len(artworks) >= 1

=============================================================================
